---- MODULE Spec2Model ----
(***************************************************************************)
(* A model of the document-to-record pipeline:                             *)
(*   local_processor.py  process_all_documents_in_container, redact_phi    *)
(*   medsearch.py        ingest_documents_to_search                        *)
(* Text (blob names, chunk text, identifiers) is a sequence of one-char    *)
(* strings, so that the string operations of the code (lower, endswith,    *)
(* splitext, replace, strip, re.sub, the format specs) are computed.       *)
(***************************************************************************)
EXTENDS Integers, Sequences, FiniteSets, TLC

\* ------------------------------------------------------------------ bounds
\* Most blobs in the source container.
MaxBlobs == 2
\* Most chunks the text splitter returns for one document.
MaxChunks == 2
\* Most external calls that fail in one run.
MaxFaults == 2

\* ------------------------------------------------------------- characters
Digit == {"0", "1", "2", "3", "4", "5", "6", "7", "8", "9"}

Upper == {"A", "B", "C", "D", "E", "F", "G", "H", "I", "J", "K", "L", "M",
          "N", "O", "P", "Q", "R", "S", "T", "U", "V", "W", "X", "Y", "Z"}

Lower == {"a", "b", "c", "d", "e", "f", "g", "h", "i", "j", "k", "l", "m",
          "n", "o", "p", "q", "r", "s", "t", "u", "v", "w", "x", "y", "z"}

\* \s of the re module and the characters str.strip() removes.
Space == {" ", "\n", "\t", "\r"}

\* \w of the re module.
WordChar == Digit \cup Upper \cup Lower \cup {"_"}

LowerPairs == <<"a", "b", "c", "d", "e", "f", "g", "h", "i", "j", "k", "l", "m",
                "n", "o", "p", "q", "r", "s", "t", "u", "v", "w", "x", "y", "z">>

UpperPairs == <<"A", "B", "C", "D", "E", "F", "G", "H", "I", "J", "K", "L", "M",
                "N", "O", "P", "Q", "R", "S", "T", "U", "V", "W", "X", "Y", "Z">>

\* str.lower() on one character.
LowerChar(c) ==
    IF c \in Upper
    THEN LowerPairs[CHOOSE k \in 1..26 : UpperPairs[k] = c]
    ELSE c

\* str.lower()
StrLower(s) == [k \in 1..Len(s) |-> LowerChar(s[k])]

\* str.endswith(suffix)
EndsWith(s, suffix) ==
    /\ Len(s) >= Len(suffix)
    /\ SubSeq(s, Len(s) - Len(suffix) + 1, Len(s)) = suffix

\* str.replace(old, new) for a one-character old and new.
ReplaceChar(s, old, new) == [k \in 1..Len(s) |-> IF s[k] = old THEN new ELSE s[k]]

RECURSIVE LStrip(_)
LStrip(s) == IF s # <<>> /\ Head(s) \in Space THEN LStrip(Tail(s)) ELSE s

RECURSIVE RStrip(_)
RStrip(s) ==
    IF s # <<>> /\ s[Len(s)] \in Space THEN RStrip(SubSeq(s, 1, Len(s) - 1)) ELSE s

\* str.strip()
Strip(s) == RStrip(LStrip(s))

\* ------------------------------------------------------ regular expressions
\* A pattern of the re module as a tree. Ends(r, s, i) lists, in the order the
\* backtracking matcher tries them, the positions where a match of r that
\* starts at position i of s may end; its head is the match re finds.
Chr(cs) == [t |-> "chr", cs |-> cs]

Seqn(xs) == [t |-> "seq", xs |-> xs]

Alt(xs) == [t |-> "alt", xs |-> xs]

\* x{min,max}, greedy; max = -1 is unbounded (x+ is Rep(x, 1, -1)).
Rep(x, min, max) == [t |-> "rep", x |-> x, min |-> min, max |-> max]

Opt(x) == Rep(x, 0, 1)

\* \b
WordB == [t |-> "wb"]

\* A literal string.
Lit(cs) == Seqn([k \in 1..Len(cs) |-> Chr({cs[k]})])

IsWordAt(s, i) == i >= 1 /\ i <= Len(s) /\ s[i] \in WordChar

RECURSIVE Ends(_, _, _), EndsSeq(_, _, _, _), EndsAlt(_, _, _, _)
RECURSIVE EndsRep(_, _, _, _), Continue(_, _, _, _, _)

\* The ends of xs[k..] from each position of `from`, in order.
Continue(from, n, xs, k, s) ==
    IF n > Len(from) THEN <<>>
    ELSE EndsSeq(xs, k, s, from[n]) \o Continue(from, n + 1, xs, k, s)

EndsSeq(xs, k, s, i) ==
    IF k > Len(xs) THEN <<i>>
    ELSE Continue(Ends(xs[k], s, i), 1, xs, k + 1, s)

EndsAlt(xs, k, s, i) ==
    IF k > Len(xs) THEN <<>>
    ELSE Ends(xs[k], s, i) \o EndsAlt(xs, k + 1, s, i)

\* Greedy: one more x first, then stopping here when min is met.
EndsRep(r, s, i, count) ==
    LET more == IF r.max = -1 \/ count < r.max
                THEN SelectSeq(Ends(r.x, s, i), LAMBDA e : e > i)
                ELSE <<>>
        RECURSIVE Each(_)
        Each(n) == IF n > Len(more) THEN <<>>
                   ELSE EndsRep(r, s, more[n], count + 1) \o Each(n + 1)
    IN Each(1) \o (IF count >= r.min THEN <<i>> ELSE <<>>)

Ends(r, s, i) ==
    CASE r.t = "chr" -> IF i <= Len(s) /\ s[i] \in r.cs THEN <<i + 1>> ELSE <<>>
      [] r.t = "wb"  -> IF IsWordAt(s, i - 1) # IsWordAt(s, i) THEN <<i>> ELSE <<>>
      [] r.t = "seq" -> EndsSeq(r.xs, 1, s, i)
      [] r.t = "alt" -> EndsAlt(r.xs, 1, s, i)
      [] r.t = "rep" -> EndsRep(r, s, i, 0)

\* re.sub(r, repl, s): every non-overlapping match of r, leftmost first,
\* replaced by repl. (No pattern of redact_phi matches the empty string.)
RECURSIVE SubFrom(_, _, _, _)
SubFrom(r, repl, s, i) ==
    IF i > Len(s) THEN <<>>
    ELSE LET m == Ends(r, s, i)
         IN IF m # <<>> /\ Head(m) > i
            THEN repl \o SubFrom(r, repl, s, Head(m))
            ELSE <<s[i]>> \o SubFrom(r, repl, s, i + 1)

ReSub(r, repl, s) == SubFrom(r, repl, s, 1)

\* ------------------------------------------------------------- redact_phi
D3 == Rep(Chr(Digit), 3, 3)

D2 == Rep(Chr(Digit), 2, 2)

D4 == Rep(Chr(Digit), 4, 4)

D12 == Rep(Chr(Digit), 1, 2)

CapWord == Seqn(<<Chr(Upper), Rep(Chr(Lower), 1, -1)>>)

\* \b(Mr\.|Mrs\.|Ms\.|Dr\.)?\s?[A-Z][a-z]+\s[A-Z][a-z]+\b
NamePattern ==
    Seqn(<<WordB,
           Opt(Alt(<<Lit(<<"M", "r", ".">>), Lit(<<"M", "r", "s", ".">>),
                     Lit(<<"M", "s", ".">>), Lit(<<"D", "r", ".">>)>>)),
           Opt(Chr(Space)), CapWord, Chr(Space), CapWord, WordB>>)

Month ==
    Alt(<<Lit(<<"J", "a", "n">>), Lit(<<"F", "e", "b">>), Lit(<<"M", "a", "r">>),
          Lit(<<"A", "p", "r">>), Lit(<<"M", "a", "y">>), Lit(<<"J", "u", "n">>),
          Lit(<<"J", "u", "l">>), Lit(<<"A", "u", "g">>), Lit(<<"S", "e", "p">>),
          Lit(<<"O", "c", "t">>), Lit(<<"N", "o", "v">>), Lit(<<"D", "e", "c">>)>>)

\* \b\d{1,2}/\d{1,2}/\d{2,4}\b|\b(?:Jan|...|Dec)\s\d{1,2},\s\d{4}\b|\b\d{4}-\d{2}-\d{2}\b
DatePattern ==
    Alt(<<Seqn(<<WordB, D12, Chr({"/"}), D12, Chr({"/"}), Rep(Chr(Digit), 2, 4), WordB>>),
          Seqn(<<WordB, Month, Chr(Space), D12, Chr({","}), Chr(Space), D4, WordB>>),
          Seqn(<<WordB, D4, Chr({"-"}), D2, Chr({"-"}), D2, WordB>>)>>)

PhoneSep == Opt(Chr({"-", "."} \cup Space))

\* \(?\d{3}\)?[-.\s]?\d{3}[-.\s]?\d{4}
PhonePattern ==
    Seqn(<<Opt(Chr({"("})), D3, Opt(Chr({")"})), PhoneSep, D3, PhoneSep, D4>>)

\* \d{3}-\d{2}-\d{4}
SsnPattern == Seqn(<<D3, Chr({"-"}), D2, Chr({"-"}), D4>>)

StreetWord ==
    Alt(<<Lit(<<"S", "t", "r", "e", "e", "t">>), Lit(<<"S", "t">>),
          Lit(<<"R", "o", "a", "d">>), Lit(<<"R", "d">>),
          Lit(<<"A", "v", "e", "n", "u", "e">>), Lit(<<"A", "v", "e">>),
          Lit(<<"B", "o", "u", "l", "e", "v", "a", "r", "d">>), Lit(<<"B", "l", "v", "d">>),
          Lit(<<"L", "a", "n", "e">>), Lit(<<"L", "n">>),
          Lit(<<"D", "r", "i", "v", "e">>), Lit(<<"D", "r">>)>>)

\* \b\d+\s[A-Za-z]+\s(Street|St|Road|Rd|Avenue|Ave|Boulevard|Blvd|Lane|Ln|Drive|Dr)\b
AddressPattern ==
    Seqn(<<WordB, Rep(Chr(Digit), 1, -1), Chr(Space),
           Rep(Chr(Upper \cup Lower), 1, -1), Chr(Space), StreetWord, WordB>>)

PATIENT_NAME == <<"[", "P", "A", "T", "I", "E", "N", "T", "_", "N", "A", "M", "E", "]">>

DATE == <<"[", "D", "A", "T", "E", "]">>

PHONE_NUMBER == <<"[", "P", "H", "O", "N", "E", "_", "N", "U", "M", "B", "E", "R", "]">>

SSN == <<"[", "S", "S", "N", "]">>

ADDRESS == <<"[", "A", "D", "D", "R", "E", "S", "S", "]">>

\* The five substitutions, each on the result of the one before.
redact_phi(text) ==
    LET r1 == ReSub(NamePattern, PATIENT_NAME, text)
        r2 == ReSub(DatePattern, DATE, r1)
        r3 == ReSub(PhonePattern, PHONE_NUMBER, r2)
        r4 == ReSub(SsnPattern, SSN, r3)
    IN ReSub(AddressPattern, ADDRESS, r4)

\* ------------------------------------------------------------ names, ids
\* The last index of character c in s, 0 when there is none (str.rfind + 1).
RECURSIVE RFind(_, _, _)
RFind(s, c, k) == IF k = 0 THEN 0 ELSE IF s[k] = c THEN k ELSE RFind(s, c, k - 1)

\* os.path.splitext(p)[0]: p up to its last dot, when that dot comes after
\* the last "/" and some character between them is not a dot.
SplitExtStem(p) ==
    LET sepIndex == RFind(p, "/", Len(p))
        dotIndex == RFind(p, ".", Len(p))
    IN IF dotIndex > sepIndex
          /\ \E k \in (sepIndex + 1)..(dotIndex - 1) : p[k] # "."
       THEN SubSeq(p, 1, dotIndex - 1)
       ELSE p

DigitChars == <<"0", "1", "2", "3", "4", "5", "6", "7", "8", "9">>

\* str(n) for n >= 0.
RECURSIVE DecimalDigits(_)
DecimalDigits(n) ==
    IF n < 10 THEN <<DigitChars[n + 1]>>
    ELSE DecimalDigits(n \div 10) \o <<DigitChars[(n % 10) + 1]>>

\* format(n, "03d"): zero-padded to at least three digits.
RECURSIVE ZeroPad(_, _)
ZeroPad(ds, width) == IF Len(ds) >= width THEN ds ELSE ZeroPad(<<"0">> \o ds, width)

Format03d(n) == ZeroPad(DecimalDigits(n), 3)

\* os.path.splitext(blob_name)[0].replace(' ', '_')
SanitizedStem(blob_name) == ReplaceChar(SplitExtStem(blob_name), " ", "_")

\* f"{stem}_chunk_{i:03d}", line 207.
ChunkId(blob_name, i) ==
    SanitizedStem(blob_name) \o <<"_", "c", "h", "u", "n", "k", "_">> \o Format03d(i)

\* f"{stem}_chunks.json", line 220.
OutputFilename(blob_name) ==
    SanitizedStem(blob_name)
        \o <<"_", "c", "h", "u", "n", "k", "s", ".", "j", "s", "o", "n">>

\* A variant of IsPdf that compares the extension as it is written.
IsPdfCaseSensitive(blob_name) == EndsWith(blob_name, <<".", "p", "d", "f">>)

\* blob_name.lower().endswith(".pdf"), line 117.
IsPdf(blob_name) == EndsWith(StrLower(blob_name), <<".", "p", "d", "f">>)

\* ------------------------------------------------------------------- JSON
\* A JSON document as its tree; bytes that are no JSON are Garbage.
JStr(s) == [ty |-> "str", v |-> s]

JInt(n) == [ty |-> "int", v |-> n]

JList(xs) == [ty |-> "list", v |-> xs]

JDict(f) == [ty |-> "dict", v |-> f]

Garbage == [ty |-> "garbage"]

DumpEntity(e) == JDict([text |-> JStr(e.text), category |-> JStr(e.category)])

DumpChunk(c) ==
    JDict([chunk_id |-> JStr(c.chunk_id),
           source_document |-> JStr(c.source_document),
           original_chunk_content |-> JStr(c.original_chunk_content),
           redacted_chunk_content |-> JStr(c.redacted_chunk_content),
           key_phrases |-> JList([k \in 1..Len(c.key_phrases) |-> JStr(c.key_phrases[k])]),
           entities |-> JList([k \in 1..Len(c.entities) |-> DumpEntity(c.entities[k])]),
           metadata |-> JDict(c.metadata)])

\* A variant of JsonDumps that writes an object with the chunks under a key.
JsonDumpsAsRecord(data) ==
    JDict([document_name |-> JStr(<<"r">>),
           chunks |-> JList([k \in 1..Len(data) |-> DumpChunk(data[k])])])

\* json.dumps(processed_chunks_data): a flat array, one object per chunk.
JsonDumps(data) == JList([k \in 1..Len(data) |-> DumpChunk(data[k])])

\* ------------------------------------------ ingest_documents_to_search, pure
\* str.replace(old, new): every non-overlapping occurrence, leftmost first.
RECURSIVE ReplaceAll(_, _, _)
ReplaceAll(s, old, new) ==
    IF Len(s) < Len(old) THEN s
    ELSE IF SubSeq(s, 1, Len(old)) = old
         THEN new \o ReplaceAll(SubSeq(s, Len(old) + 1, Len(s)), old, new)
         ELSE <<Head(s)>> \o ReplaceAll(Tail(s), old, new)

JNull == [ty |-> "null"]

\* bool(value) of a parsed JSON value.
Truthy(j) ==
    CASE j.ty = "list" -> j.v # <<>>
      [] j.ty = "str"  -> j.v # <<>>
      [] j.ty = "dict" -> DOMAIN j.v # {}
      [] j.ty = "int"  -> j.v # 0
      [] OTHER         -> FALSE

\* dict.get(key, default)
DictGet(j, key, default) == IF key \in DOMAIN j.v THEN j.v[key] ELSE default

\* format(value, "") in an f-string.
FormatValue(j) ==
    CASE j.ty = "int" -> DecimalDigits(j.v)
      [] j.ty = "str" -> j.v
      [] j.ty = "null" -> <<"N", "o", "n", "e">>

\* Line 99: [entity.get("text") for entity in chunk.get("entities", [])
\*           if entity and entity.get("text")]; raised when an entity that is
\* truthy is no object, or entities cannot be iterated.
RECURSIVE EntityTexts(_, _)
EntityTexts(es, k) ==
    IF k > Len(es) THEN [raised |-> FALSE, texts |-> <<>>]
    ELSE LET e == es[k]
             rest == EntityTexts(es, k + 1)
         IN IF ~Truthy(e) THEN rest
            ELSE IF e.ty # "dict" THEN [raised |-> TRUE, texts |-> <<>>]
            ELSE IF Truthy(DictGet(e, "text", JNull))
                 THEN [raised |-> rest.raised, texts |-> <<e.v["text"]>> \o rest.texts]
                 ELSE rest

MedicalEntities(chunk) ==
    LET entities == DictGet(chunk, "entities", JList(<<>>))
    IN IF entities.ty = "list" THEN EntityTexts(entities.v, 1)
       ELSE [raised |-> Truthy(entities) \/ entities.ty \in {"int", "null"},
             texts |-> <<>>]

\* Line 97: f"{document_name.replace(' ', '_').replace('/', '_')}-{page}-{i}"
SearchId(document_name, page, i) ==
    ReplaceChar(ReplaceChar(document_name, " ", "_"), "/", "_")
        \o <<"-">> \o FormatValue(page) \o <<"-">> \o DecimalDigits(i)

\* Lines 101-107.
SearchDocument(document_name, chunk, i) ==
    [id |-> SearchId(document_name, DictGet(chunk, "page", JInt(0)), i),
     document_name |-> document_name,
     page_number |-> DictGet(chunk, "page", JInt(0)),
     chunk_text |-> DictGet(chunk, "text", JStr(<<>>)),
     medical_entities |-> MedicalEntities(chunk).texts]

\* Lines 96-108: the entries appended before a chunk raises stay appended.
RECURSIVE PrepareChunks(_, _, _)
PrepareChunks(document_name, cs, k) ==
    IF k > Len(cs) THEN [raised |-> FALSE, docs |-> <<>>]
    ELSE IF cs[k].ty # "dict" \/ MedicalEntities(cs[k]).raised
         THEN [raised |-> TRUE, docs |-> <<>>]
         ELSE LET rest == PrepareChunks(document_name, cs, k + 1)
              IN [raised |-> rest.raised,
                  docs |-> <<SearchDocument(document_name, cs[k], k - 1)>> \o rest.docs]

\* Lines 84-118 for the bytes of one blob: what is appended to
\* documents_to_upload and which branch ends the blob.
\*   "json_error"  json.loads raised (113-115)
\*   "error"       another exception (116-118): .get on a value that is no
\*                 object, .replace on a name that is no string, a chunk that
\*                 is no object
\*   "no_chunks"   the warning of lines 91-94
\*   "prepared"    line 110
PrepareBlob(content) ==
    IF content.ty = "garbage" THEN [end |-> "json_error", docs |-> <<>>]
    ELSE IF content.ty # "dict" THEN [end |-> "error", docs |-> <<>>]
    ELSE LET name == DictGet(content, "document_name",
                             JStr(<<"u", "n", "k", "n", "o", "w", "n">>))
             chunks == DictGet(content, "chunks", JList(<<>>))
         IN IF name.ty # "str" THEN [end |-> "error", docs |-> <<>>]
            ELSE IF ~Truthy(chunks) THEN [end |-> "no_chunks", docs |-> <<>>]
            ELSE IF chunks.ty # "list" THEN [end |-> "error", docs |-> <<>>]
            ELSE LET document_name == ReplaceAll(name.v, <<".", "p", "d", "f">>, <<>>)
                     got == PrepareChunks(document_name, chunks.v, 1)
                 IN [end |-> IF got.raised THEN "error" ELSE "prepared",
                     docs |-> got.docs]

\* -------------------------------------------------------- the environment
\* The characters of the model in code point order.
CodePoints ==
    <<" ", "-", ".", "/", "0", "1", "2", "3", "4", "5", "6", "7", "8", "9",
      "A", "B", "C", "D", "E", "F", "G", "H", "I", "J", "K", "L", "M",
      "N", "O", "P", "Q", "R", "S", "T", "U", "V", "W", "X", "Y", "Z", "_",
      "a", "b", "c", "d", "e", "f", "g", "h", "i", "j", "k", "l", "m",
      "n", "o", "p", "q", "r", "s", "t", "u", "v", "w", "x", "y", "z">>

Ord(c) == CHOOSE k \in 1..Len(CodePoints) : CodePoints[k] = c

RECURSIVE LexLess(_, _)
LexLess(a, b) ==
    IF b = <<>> THEN FALSE
    ELSE IF a = <<>> THEN TRUE
    ELSE IF Head(a) = Head(b) THEN LexLess(Tail(a), Tail(b))
    ELSE Ord(Head(a)) < Ord(Head(b))

\* list_blobs(): the blobs of a container, by name.
RECURSIVE ListBlobs(_)
ListBlobs(names) ==
    IF names = {} THEN <<>>
    ELSE LET first == CHOOSE a \in names : \A b \in names \ {a} : LexLess(a, b)
         IN <<first>> \o ListBlobs(names \ {first})

\* Names a blob of the source container may have.
BlobNames ==
    {<<"a", " ", "b", ".", "p", "d", "f">>,
     <<"a", "_", "b", ".", "p", "d", "f">>,
     <<"c", ".", "P", "D", "F">>,
     <<"n", ".", "t", "x", "t">>}

\* What the source container may hold: at most MaxBlobs blobs, their names
\* unique, in listing order.
Containers ==
    {ListBlobs(S) : S \in {S \in SUBSET BlobNames : Cardinality(S) <= MaxBlobs}}

\* result.content of the document analysis: None, blank, or text.
AnalysisContents ==
    {[none |-> TRUE, text |-> <<>>],
     [none |-> FALSE, text |-> <<" ", "\n">>],
     [none |-> FALSE, text |-> <<"n", "o", "t", "e", "s">>]}

\* Page contents of the chunks of a sample document, in order: text with a
\* name, a social security number, a name alone, a date.
ChunkTexts ==
    <<<<"A", "l", " ", "B", "o", " ", "h", "a", "s", " ", "f", "l", "u">>,
      <<"1", "2", "3", "-", "4", "5", "-", "6", "7", "8", "9">>,
      <<"A", "l", " ", "B", "o">>,
      <<"J", "a", "n", " ", "3", ",", " ", "2", "0", "2", "4">>>>

\* create_documents: Documents with page_content and metadata ({} here, no
\* metadatas are passed), at least one for a text that is not blank. The
\* splitter is a library: its results here are the sample document cut
\* after one to MaxChunks chunks.
SplitterResults ==
    {[k \in 1..n |-> [page_content |-> ChunkTexts[k], metadata |-> <<>>]] :
        n \in 1..(IF MaxChunks < Len(ChunkTexts) THEN MaxChunks ELSE Len(ChunkTexts))}

\* language_response_kp[0].key_phrases for a text: the service finds a phrase
\* in a text that ends in "flu" and none elsewhere.
KeyPhraseResults(text) ==
    IF EndsWith(text, <<"f", "l", "u">>) THEN {<< <<"f", "l", "u">> >>} ELSE {<<>>}

\* language_response_ent[0].entities for a text.
EntityResults(text) ==
    IF EndsWith(text, <<"f", "l", "u">>)
    THEN {<<[text |-> <<"f", "l", "u">>, category |-> <<"D", "x">>]>>}
    ELSE {<<>>}

\* Names a blob of the processed container may have when the indexer runs.
ArtifactNames ==
    {<<"d", "1", ".", "j", "s", "o", "n">>,
     <<"d", "2", ".", "j", "s", "o", "n">>,
     <<"d", "3", ".", "j", "s", "o", "n">>,
     <<"x", ".", "t", "x", "t">>}

Report1 == JStr(<<"r", " ", "1", ".", "p", "d", "f">>)

PagedChunk ==
    JDict([page |-> JInt(1),
           text |-> JStr(<<"f", "l", "u">>),
           entities |-> JList(<<JDict([text |-> JStr(<<"f", "l", "u">>),
                                       category |-> JStr(<<"D", "x">>)]),
                                JNull>>)])

PlainChunk == JDict([text |-> JStr(<<"x", "y">>)])

\* Contents a blob of the processed container may have: no JSON; a flat
\* array; objects without chunks, with an empty list, with chunks that are
\* no list, with a name that is no string; objects with chunks.
ArtifactSamples ==
    <<Garbage,
      JList(<<PlainChunk>>),
      JDict([document_name |-> Report1]),
      JDict([document_name |-> Report1, chunks |-> JList(<<>>)]),
      JDict([document_name |-> Report1, chunks |-> JStr(<<"x", "y">>)]),
      JDict([document_name |-> JInt(7), chunks |-> JList(<<PlainChunk>>)]),
      JDict([document_name |-> Report1, chunks |-> JList(<<PagedChunk, PlainChunk>>)]),
      JDict([document_name |-> Report1,
             chunks |-> JList(<<PagedChunk, JStr(<<"x">>), PlainChunk>>)]),
      JDict([chunks |-> JList(<<PlainChunk>>)])>>

\* What the processed container may hold: at most MaxBlobs blobs.
ArtifactStores ==
    {[n \in S |-> ArtifactSamples[f[n]]] :
        S \in {S \in SUBSET ArtifactNames : Cardinality(S) <= MaxBlobs},
        f \in [ArtifactNames -> 1..Len(ArtifactSamples)]}

\* What the processed container may hold before local_processor.py runs:
\* nothing, a blob that is no artifact, or an artifact of the shape
\* medsearch.py reads.
PriorStores ==
    {<<>>,
     [n \in {<<"x", ".", "t", "x", "t">>} |-> Garbage],
     [n \in {<<"d", "1", ".", "j", "s", "o", "n">>} |-> ArtifactSamples[7]]}

\* The results of upload_documents(docs): one per entry, succeeded or not.
UploadResults(docs) ==
    {q \in [1..Len(docs) -> BOOLEAN] :
        Cardinality({k \in 1..Len(docs) : ~q[k]}) <= MaxFaults}

NoValue == {<<>>}

VARIABLES
    container,      \* the blobs of TARGET_CONTAINER_NAME, in listing order
    store,          \* PROCESSED_CONTAINER_NAME: output name -> JSON document
    run,            \* "first" or "second" run of the script over the container
    first_store,    \* the store as the first run left it
    tape,           \* the external services' replies of the first run, in call order
    cursor,         \* the number of external calls of this run so far, plus one
    faults,         \* the external calls of this run that raised
    pc,             \* the statement the script is at
    fatal_line,     \* the line whose call raised out of the function, or 0
    pos,            \* the position of the for loop in blob_list
    blob_name,
    document_count,
    processed_successfully_count,
    markdown_content,
    chunks,
    i,              \* the chunk loop's index
    redacted_chunk_content,
    key_phrases,
    entities,
    processed_chunks_data,
    log,            \* the log lines of this run: [at |-> position, ev |-> event]
    lang_calls,     \* the language service calls for the current document
    report,         \* the final summary line
    redactions,     \* redact_phi of each sample chunk text, computed once in Init
    ipc,            \* the statement ingest_documents_to_search is at
    blob_list,      \* the names list_blobs() gave the indexer
    bpos,           \* the position of the indexer's for loop in blob_list
    documents_to_upload,
    prepared,       \* per blob of blob_list passed, the entries it appended
    uploads,        \* the arguments of the upload_documents calls so far
    search_index,   \* the search index: id -> record
    ilog            \* the indexer's log lines: [ev |-> event, what |-> name or key]

vars ==
    <<container, store, run, first_store, tape, cursor, faults, pc, fatal_line,
      pos, blob_name, document_count, processed_successfully_count,
      markdown_content, chunks, i, redacted_chunk_content, key_phrases,
      entities, processed_chunks_data, log, lang_calls, report, redactions,
      ipc, blob_list, bpos, documents_to_upload, prepared, uploads, search_index,
      ilog>>

NoReport == [kind |-> "pending", ok |-> 0, total |-> 0]

\* The script's variables, at statement p.
ProcessorAt(p) ==
    /\ run = "first"
    /\ first_store = <<>>
    /\ tape = <<>>
    /\ cursor = 1
    /\ faults = 0
    /\ pc = p
    /\ fatal_line = 0
    /\ pos = 1
    /\ blob_name = <<>>
    /\ document_count = 0
    /\ processed_successfully_count = 0
    /\ markdown_content = <<>>
    /\ chunks = <<>>
    /\ i = 0
    /\ redacted_chunk_content = <<>>
    /\ key_phrases = <<>>
    /\ entities = <<>>
    /\ processed_chunks_data = <<>>
    /\ log = <<>>
    /\ lang_calls = <<>>
    /\ report = NoReport
    /\ redactions = [k \in 1..Len(ChunkTexts) |-> redact_phi(ChunkTexts[k])]

\* The indexer's variables, at statement p.
IndexerAt(p) ==
    /\ ipc = p
    /\ blob_list = <<>>
    /\ bpos = 1
    /\ documents_to_upload = <<>>
    /\ prepared = <<>>
    /\ uploads = <<>>
    /\ search_index = <<>>
    /\ ilog = <<>>

\* local_processor.py is started on some source container; the processed
\* container is empty.
Init ==
    /\ container \in Containers
    /\ store = <<>>
    /\ ProcessorAt("start")
    /\ IndexerAt("idle")

\* medsearch.py is started on some processed container.
InitIndexer ==
    /\ container = <<>>
    /\ store \in ArtifactStores
    /\ ProcessorAt("idle")
    /\ IndexerAt("start")

\* The replies an external call may get: one of okvals, or an exception. The
\* second run gets the replies of the first, in order.
Replies(okvals) ==
    IF run = "second" THEN {tape[cursor]}
    ELSE {[ok |-> TRUE, val |-> v] : v \in okvals}
         \cup (IF faults < MaxFaults THEN {[ok |-> FALSE]} ELSE {})

Called(r) ==
    /\ tape' = IF run = "first" THEN Append(tape, r) ELSE tape
    /\ cursor' = cursor + 1
    /\ faults' = IF r.ok THEN faults ELSE faults + 1

\* A line of the log: the event, the position of the blob in the listing and
\* the chunk index the script is at.
Logged(ev) == log' = Append(log, [at |-> pos, i |-> i, ev |-> ev])

chunkVars ==
    <<markdown_content, chunks, i, redacted_chunk_content, key_phrases, entities,
      processed_chunks_data>>

countVars == <<document_count, processed_successfully_count>>

indexerVars ==
    <<ipc, blob_list, bpos, documents_to_upload, prepared, uploads, search_index, ilog>>

runVars == <<container, run, first_store, redactions, indexerVars>>

\* ----------------------------------------- process_all_documents_in_container
\* Lines 98-110: the container client, list_blobs(), the two counters. A
\* failure is raised out of the function by the outer handler (244-247).
Start ==
    /\ pc = "start"
    /\ \E r \in Replies(NoValue) :
        /\ Called(r)
        /\ \/ /\ r.ok
              /\ pc' = "loop"
              /\ UNCHANGED fatal_line
           \/ /\ ~r.ok
              /\ pc' = "fatal"
              /\ fatal_line' = 106
    /\ document_count' = 0
    /\ processed_successfully_count' = 0
    /\ pos' = 1
    /\ UNCHANGED <<runVars, store, blob_name, chunkVars, log, lang_calls, report>>

\* Line 113: blob_list is exhausted.
LoopExit ==
    /\ pc = "loop"
    /\ pos > Len(container)
    /\ pc' = "summary"
    /\ UNCHANGED <<runVars, store, tape, cursor, faults, fatal_line, pos, blob_name,
                   countVars, chunkVars, log, lang_calls, report>>

\* Lines 114-120: a blob that is no PDF is skipped.
SkipNonPdf ==
    /\ pc = "loop"
    /\ pos <= Len(container)
    /\ ~IsPdf(container[pos])
    /\ blob_name' = container[pos]
    /\ Logged("skip_non_pdf")
    /\ pos' = pos + 1
    /\ UNCHANGED <<runVars, store, tape, cursor, faults, pc, fatal_line, countVars,
                   chunkVars, lang_calls, report>>

\* Lines 114-123: a PDF is counted as attempted.
BeginDocument ==
    /\ pc = "loop"
    /\ pos <= Len(container)
    /\ IsPdf(container[pos])
    /\ blob_name' = container[pos]
    /\ document_count' = document_count + 1
    /\ Logged("attempt")
    /\ lang_calls' = <<>>
    /\ pc' = "progress"
    /\ UNCHANGED <<runVars, store, tape, cursor, faults, fatal_line, pos,
                   processed_successfully_count, chunkVars, report>>

\* Line 124: the progress line lists the container again, before the try of
\* line 126: what list_blobs raises here reaches the outer handler.
PrintProgress ==
    /\ pc = "progress"
    /\ \E r \in Replies(NoValue) :
        /\ Called(r)
        /\ \/ /\ r.ok
              /\ pc' = "download"
              /\ UNCHANGED fatal_line
           \/ /\ ~r.ok
              /\ pc' = "fatal"
              /\ fatal_line' = 124
    /\ UNCHANGED <<runVars, store, pos, blob_name, countVars, chunkVars, log,
                   lang_calls, report>>

\* Lines 232-235: the handler of the per-document try; the loop goes on.
DocumentError ==
    /\ Logged("error")
    /\ pos' = pos + 1
    /\ pc' = "loop"

\* Lines 127-133.
Download ==
    /\ pc = "download"
    /\ \E r \in Replies(NoValue) :
        /\ Called(r)
        /\ \/ /\ r.ok
              /\ Logged("downloaded")
              /\ pc' = "analyze"
              /\ UNCHANGED pos
           \/ /\ ~r.ok
              /\ DocumentError
    /\ UNCHANGED <<runVars, store, fatal_line, blob_name, countVars, chunkVars,
                   lang_calls, report>>

\* A variant of IsBlank that does not strip the text.
IsBlankUnstripped(text) == text = <<>>

\* Line 150: not markdown_content.strip()
IsBlank(text) == Strip(text) = <<>>

\* Lines 136-153: the analysis; a blank content skips the document.
Analyze ==
    /\ pc = "analyze"
    /\ \E r \in Replies(AnalysisContents) :
        /\ Called(r)
        /\ \/ /\ r.ok
              /\ markdown_content' = (IF r.val.none THEN <<>> ELSE r.val.text)
              /\ \/ /\ IsBlank(markdown_content')
                    /\ Logged("no_text")
                    /\ pos' = pos + 1
                    /\ pc' = "loop"
                 \/ /\ ~IsBlank(markdown_content')
                    /\ pc' = "split"
                    /\ UNCHANGED <<pos, log>>
           \/ /\ ~r.ok
              /\ DocumentError
              /\ UNCHANGED markdown_content
    /\ UNCHANGED <<runVars, store, fatal_line, blob_name, countVars, chunks, i,
                   redacted_chunk_content, key_phrases, entities,
                   processed_chunks_data, lang_calls, report>>

\* Lines 156-173: RecursiveCharacterTextSplitter(490, 88).create_documents.
Split ==
    /\ pc = "split"
    /\ \E r \in Replies(SplitterResults) :
        /\ Called(r)
        /\ \/ /\ r.ok
              /\ chunks' = r.val
              /\ processed_chunks_data' = <<>>
              /\ i' = 0
              /\ pc' = "chunk"
              /\ UNCHANGED <<pos, log>>
           \/ /\ ~r.ok
              /\ DocumentError
              /\ UNCHANGED <<chunks, processed_chunks_data, i>>
    /\ UNCHANGED <<runVars, store, fatal_line, blob_name, countVars,
                   markdown_content, redacted_chunk_content, key_phrases, entities,
                   lang_calls, report>>

\* Line 185: len(redacted_chunk_content.strip()) > 10. (text_analytics_client
\* is set whenever the module was imported: lines 63-66 raise otherwise.)
IsSubstantial(chunk_content, redacted) == Len(Strip(redacted)) > 10

\* Lines 174-185, 196-197: the next chunk is redacted; a short one gets no
\* language call.
RedactChunk ==
    /\ pc = "chunk"
    /\ i < Len(chunks)
    /\ LET chunk_content == chunks[i + 1].page_content
       IN /\ redacted_chunk_content' = redactions[i + 1]
          /\ \/ /\ IsSubstantial(chunk_content, redacted_chunk_content')
                /\ pc' = "key_phrases"
                /\ UNCHANGED log
             \/ /\ ~IsSubstantial(chunk_content, redacted_chunk_content')
                /\ Logged("too_short")
                /\ pc' = "append"
    /\ key_phrases' = <<>>
    /\ entities' = <<>>
    /\ UNCHANGED <<runVars, store, tape, cursor, faults, fatal_line, pos, blob_name,
                   countVars, markdown_content, chunks, i, processed_chunks_data,
                   lang_calls, report>>

\* A variant of LanguageDocument that sends the chunk as it was split.
LanguageDocumentOriginal(chunk_content, redacted) == chunk_content

\* The text lines 186 and 190 send to the language service.
LanguageDocument(chunk_content, redacted) == redacted

\* A variant of LanguageErrorHandler that resets the value.
LanguageErrorHandlerResets(value) == <<>>

\* Lines 200-203: the handler logs a warning and assigns nothing: key_phrases
\* and entities keep the values they had when the call raised.
LanguageErrorHandler(value) == value

LanguageCall(op) ==
    lang_calls' =
        Append(lang_calls,
               [op |-> op, i |-> i,
                text |-> LanguageDocument(chunks[i + 1].page_content,
                                          redacted_chunk_content)])

\* Lines 186-188, and the handler of lines 200-203.
ExtractKeyPhrases ==
    /\ pc = "key_phrases"
    /\ LanguageCall("extract_key_phrases")
    /\ \E r \in Replies(KeyPhraseResults(LanguageDocument(chunks[i + 1].page_content,
                                                        redacted_chunk_content))) :
        /\ Called(r)
        /\ \/ /\ r.ok
              /\ key_phrases' = (IF r.val # <<>> THEN r.val ELSE key_phrases)
              /\ pc' = "entities"
              /\ UNCHANGED <<log, entities>>
           \/ /\ ~r.ok
              /\ Logged("language_failed")
              /\ pc' = "append"
              /\ key_phrases' = LanguageErrorHandler(key_phrases)
              /\ entities' = LanguageErrorHandler(entities)
    /\ UNCHANGED <<runVars, store, fatal_line, pos, blob_name, countVars,
                   markdown_content, chunks, i, redacted_chunk_content,
                   processed_chunks_data, report>>

\* Lines 190-192, and the handler of lines 200-203.
RecognizeEntities ==
    /\ pc = "entities"
    /\ LanguageCall("recognize_entities")
    /\ \E r \in Replies(EntityResults(LanguageDocument(chunks[i + 1].page_content,
                                                     redacted_chunk_content))) :
        /\ Called(r)
        /\ \/ /\ r.ok
              /\ entities' =
                    (IF r.val # <<>>
                     THEN [k \in 1..Len(r.val) |->
                              [text |-> r.val[k].text, category |-> r.val[k].category]]
                     ELSE entities)
              /\ UNCHANGED <<log, key_phrases>>
           \/ /\ ~r.ok
              /\ Logged("language_failed")
              /\ key_phrases' = LanguageErrorHandler(key_phrases)
              /\ entities' = LanguageErrorHandler(entities)
    /\ pc' = "append"
    /\ UNCHANGED <<runVars, store, fatal_line, pos, blob_name, countVars,
                   markdown_content, chunks, i, redacted_chunk_content,
                   processed_chunks_data, report>>

\* Lines 206-214.
ChunkData ==
    [chunk_id |-> ChunkId(blob_name, i),
     source_document |-> blob_name,
     original_chunk_content |-> chunks[i + 1].page_content,
     redacted_chunk_content |-> redacted_chunk_content,
     key_phrases |-> key_phrases,
     entities |-> entities,
     metadata |-> chunks[i + 1].metadata]

\* Line 215, and the chunk loop's step.
AppendChunk ==
    /\ pc = "append"
    /\ processed_chunks_data' = Append(processed_chunks_data, ChunkData)
    /\ i' = i + 1
    /\ pc' = "chunk"
    /\ UNCHANGED <<runVars, store, tape, cursor, faults, fatal_line, pos, blob_name,
                   countVars, markdown_content, chunks, redacted_chunk_content,
                   key_phrases, entities, log, lang_calls, report>>

\* Line 217: the chunk loop is over.
ChunksDone ==
    /\ pc = "chunk"
    /\ i >= Len(chunks)
    /\ pc' = "upload"
    /\ UNCHANGED <<runVars, store, tape, cursor, faults, fatal_line, pos, blob_name,
                   countVars, chunkVars, log, lang_calls, report>>

\* A variant of UploadBlob that appends to a blob that exists.
UploadBlobAppend(st, name, content) ==
    [n \in DOMAIN st \cup {name} |->
        IF n # name THEN st[n]
        ELSE IF n \in DOMAIN st THEN JList(st[n].v \o content.v)
        ELSE content]

\* upload_blob(content, overwrite=True): the blob of that name is replaced.
UploadBlob(st, name, content) ==
    [n \in DOMAIN st \cup {name} |-> IF n = name THEN content ELSE st[n]]

\* Lines 220-230.
Upload ==
    /\ pc = "upload"
    /\ \E r \in Replies(NoValue) :
        /\ Called(r)
        /\ \/ /\ r.ok
              /\ store' = UploadBlob(store, OutputFilename(blob_name),
                                     JsonDumps(processed_chunks_data))
              /\ Logged("success")
              /\ processed_successfully_count' = processed_successfully_count + 1
              /\ pos' = pos + 1
              /\ pc' = "loop"
           \/ /\ ~r.ok
              /\ DocumentError
              /\ UNCHANGED <<store, processed_successfully_count>>
    /\ UNCHANGED <<runVars, fatal_line, blob_name, document_count, chunkVars,
                   lang_calls, report>>

\* Lines 238-242.
Summary ==
    /\ pc = "summary"
    /\ report' =
         IF document_count = 0
         THEN [kind |-> "no_pdf_found", ok |-> 0, total |-> 0]
         ELSE [kind |-> "finished", ok |-> processed_successfully_count,
               total |-> document_count]
    /\ pc' = "done"
    /\ UNCHANGED <<runVars, store, tape, cursor, faults, fatal_line, pos, blob_name,
                   countVars, chunkVars, log, lang_calls>>

\* The script is run again over the same container, with the same replies.
Rerun ==
    /\ pc \in {"done", "fatal"}
    /\ run = "first"
    /\ run' = "second"
    /\ first_store' = store
    /\ cursor' = 1
    /\ faults' = 0
    /\ pc' = "start"
    /\ fatal_line' = 0
    /\ pos' = 1
    /\ blob_name' = <<>>
    /\ document_count' = 0
    /\ processed_successfully_count' = 0
    /\ markdown_content' = <<>>
    /\ chunks' = <<>>
    /\ i' = 0
    /\ redacted_chunk_content' = <<>>
    /\ key_phrases' = <<>>
    /\ entities' = <<>>
    /\ processed_chunks_data' = <<>>
    /\ log' = <<>>
    /\ lang_calls' = <<>>
    /\ report' = NoReport
    /\ UNCHANGED <<container, store, tape, redactions, indexerVars>>

\* ------------------------------------------------ ingest_documents_to_search
processorVars ==
    <<container, run, first_store, redactions, pc, fatal_line, pos, blob_name,
      countVars, chunkVars, log, lang_calls, report>>

ILogged(ev, what) == ilog' = Append(ilog, [ev |-> ev, what |-> what])

\* Lines 59-75: the listing; the function returns when it fails or is empty.
IngestStart ==
    /\ ipc = "start"
    /\ \E r \in Replies(NoValue) :
        /\ Called(r)
        /\ \/ /\ r.ok
              /\ store # <<>>
              /\ blob_list' = ListBlobs(DOMAIN store)
              /\ ipc' = "loop"
              /\ UNCHANGED ilog
           \/ /\ r.ok
              /\ store = <<>>
              /\ ipc' = "done"
              /\ UNCHANGED <<blob_list, ilog>>
           \/ /\ ~r.ok
              /\ ILogged("list_error", <<>>)
              /\ ipc' = "done"
              /\ UNCHANGED blob_list
    /\ UNCHANGED <<processorVars, store, bpos, documents_to_upload, prepared,
                   uploads, search_index>>

\* Line 78: a blob whose name does not end in .json is passed over.
SkipNonJson ==
    /\ ipc = "loop"
    /\ bpos <= Len(blob_list)
    /\ ~EndsWith(blob_list[bpos], <<".", "j", "s", "o", "n">>)
    /\ prepared' = Append(prepared, <<>>)
    /\ bpos' = bpos + 1
    /\ UNCHANGED <<processorVars, store, tape, cursor, faults, ipc, blob_list,
                   documents_to_upload, uploads, search_index, ilog>>

\* A variant of Handled with the handler of lines 113-115 only.
HandledJsonOnly(end) == end # "error"

\* The handlers of lines 113-118 take every exception of the try of line 80.
Handled(end) == TRUE

\* Lines 79-118 for one blob.
IngestBlob ==
    /\ ipc = "loop"
    /\ bpos <= Len(blob_list)
    /\ EndsWith(blob_list[bpos], <<".", "j", "s", "o", "n">>)
    /\ \E r \in Replies(NoValue) :
        /\ Called(r)
        /\ \/ /\ r.ok
              /\ LET got == PrepareBlob(store[blob_list[bpos]])
                 IN /\ documents_to_upload' = documents_to_upload \o got.docs
                    /\ prepared' = Append(prepared, got.docs)
                    /\ ILogged(got.end, blob_list[bpos])
                    /\ ipc' = IF Handled(got.end) THEN "loop" ELSE "raised"
           \/ /\ ~r.ok
              /\ prepared' = Append(prepared, <<>>)
              /\ ILogged("error", blob_list[bpos])
              /\ UNCHANGED <<documents_to_upload, ipc>>
    /\ bpos' = bpos + 1
    /\ UNCHANGED <<processorVars, store, blob_list, uploads, search_index>>

\* Line 77: blob_list is exhausted.
IngestLoopExit ==
    /\ ipc = "loop"
    /\ bpos > Len(blob_list)
    /\ ipc' = "upload"
    /\ UNCHANGED <<processorVars, store, tape, cursor, faults, blob_list, bpos,
                   documents_to_upload, prepared, uploads, search_index, ilog>>

\* upload_documents: each entry that succeeded is stored under its id, in
\* order, replacing the record of that id.
RECURSIVE Upserted(_, _, _, _)
Upserted(index, docs, results, k) ==
    IF k > Len(docs) THEN index
    ELSE Upserted(IF results[k] THEN UploadBlob(index, docs[k].id, docs[k]) ELSE index,
                  docs, results, k + 1)

\* Lines 124-127: one error line per entry that did not succeed.
FailureLines(docs, results) ==
    LET failed == SelectSeq([k \in 1..Len(docs) |-> k], LAMBDA k : ~results[k])
    IN [n \in 1..Len(failed) |-> [ev |-> "upload_failed", what |-> docs[failed[n]].id]]

\* A variant of UploadArgument that leaves the first entry out.
UploadArgumentTail(docs) == Tail(docs)

\* The argument of upload_documents, line 123.
UploadArgument(docs) == docs

\* Lines 120-135.
UploadDocuments ==
    /\ ipc = "upload"
    /\ \/ /\ documents_to_upload # <<>>
          /\ uploads' = Append(uploads, UploadArgument(documents_to_upload))
          /\ \E r \in Replies(UploadResults(UploadArgument(documents_to_upload))) :
              /\ Called(r)
              /\ \/ /\ r.ok
                    /\ search_index' =
                          Upserted(search_index, UploadArgument(documents_to_upload),
                                   r.val, 1)
                    /\ ilog' = ilog
                                \o FailureLines(UploadArgument(documents_to_upload), r.val)
                                \o <<[ev |-> "uploaded", what |-> <<>>]>>
                 \/ /\ ~r.ok
                    /\ ILogged("upload_error", <<>>)
                    /\ UNCHANGED search_index
       \/ /\ documents_to_upload = <<>>
          /\ ILogged("nothing_to_upload", <<>>)
          /\ UNCHANGED <<uploads, search_index, tape, cursor, faults>>
    /\ ipc' = "done"
    /\ UNCHANGED <<processorVars, store, blob_list, bpos, documents_to_upload, prepared>>

Next ==
    \/ Start
    \/ LoopExit
    \/ SkipNonPdf
    \/ BeginDocument
    \/ PrintProgress
    \/ Download
    \/ Analyze
    \/ Split
    \/ RedactChunk
    \/ ExtractKeyPhrases
    \/ RecognizeEntities
    \/ AppendChunk
    \/ ChunksDone
    \/ Upload
    \/ Summary

\* One run of the script.
Spec == Init /\ [][Next]_vars

NextRerun == Next \/ Rerun

\* Two runs of the script over the same container.
SpecRerun == Init /\ [][NextRerun]_vars

\* medsearch.py is started once local_processor.py has ended.
StartIndexer ==
    /\ pc \in {"done", "fatal"}
    /\ ipc = "idle"
    /\ ipc' = "start"
    /\ UNCHANGED <<processorVars, store, tape, cursor, faults, blob_list, bpos,
                   documents_to_upload, prepared, uploads, search_index, ilog>>

NextIndexer ==
    \/ IngestStart
    \/ SkipNonJson
    \/ IngestBlob
    \/ IngestLoopExit
    \/ UploadDocuments

\* One run of medsearch.py.
SpecIndexer == InitIndexer /\ [][NextIndexer]_vars

\* local_processor.py is started on some source container, the processed
\* container holding what it held before.
InitPipeline ==
    /\ container \in Containers
    /\ store \in PriorStores
    /\ ProcessorAt("start")
    /\ IndexerAt("idle")

NextPipeline == Next \/ StartIndexer \/ NextIndexer

\* One run of local_processor.py, then one run of medsearch.py.
SpecPipeline == InitPipeline /\ [][NextPipeline]_vars

\* ------------------------------------------------------------- properties
Last(s) == s[Len(s)]

\* The name ends in .pdf, in any case of the letters.
HasPdfExtension(name) ==
    LET n == Len(name)
    IN /\ n >= 4
       /\ name[n - 3] = "."
       /\ name[n - 2] \in {"p", "P"}
       /\ name[n - 1] \in {"d", "D"}
       /\ name[n] \in {"f", "F"}

PdfPositions == {p \in 1..Len(container) : HasPdfExtension(container[p])}

\* The lines of the log that tell the event ev.
EventsAt(ev) == {k \in 1..Len(log) : log[k].ev = ev}

\* The upload of line 227 has just completed for blob_name.
JustPublished == log # <<>> /\ Last(log).ev = "success"

\* The chunks of the artifact of blob_name in the processed container.
PublishedChunks == store[OutputFilename(blob_name)].v

\* The chunk indices of the document just handled at which the language
\* service raised.
FailedChunks ==
    {log[k].i : k \in {n \in EventsAt("language_failed") : log[n].at = Last(log).at}}

\* The call that raised for chunk k: the last one made for it.
RaisedIn(k) ==
    IF \E n \in DOMAIN lang_calls :
          lang_calls[n].i = k /\ lang_calls[n].op = "recognize_entities"
    THEN "recognize_entities"
    ELSE "extract_key_phrases"

\* What the language service returns for chunk k, as written to the artifact.
ReturnedKeyPhrases(k) ==
    LET kp == CHOOSE v \in KeyPhraseResults(redactions[k + 1]) : TRUE
    IN JList([n \in 1..Len(kp) |-> JStr(kp[n])])

ReturnedEntities(k) ==
    LET es == CHOOSE v \in EntityResults(redactions[k + 1]) : TRUE
    IN JList([n \in 1..Len(es) |->
                 JDict([text |-> JStr(es[n].text), category |-> JStr(es[n].category)])])

\* The stripped redacted text of chunk k has 10 characters or less.
ShortChunk(k) == Len(Strip(redactions[k + 1])) <= 10

\* C1: an error raised while one PDF document is handled never ends the
\* batch: a run ends either on the failure of the setup or of the listing of
\* line 106, or with every PDF of the listing attempted.
C1_DocumentErrorNeverEndsBatch ==
    /\ pc = "fatal" => fatal_line = 106
    /\ pc = "done" => document_count = Cardinality(PdfPositions)

C3_BlankDocumentNotCountedAsFailed ==
    /\ pc \in {"split", "chunk", "key_phrases", "entities", "append", "upload"}
          => Strip(markdown_content) # <<>>
    /\ pc = "done" =>
          document_count - processed_successfully_count
              = Cardinality(EventsAt("error"))

\* C3 amended: a document whose extracted text is blank is not chunked, not
\* annotated and not written, a warning is logged for it and the loop goes
\* to the next blob; the run keeps no count of skipped documents: in the
\* final counts it is attempted and not processed, as a failed document is.
C3_BlankDocumentPassedOver ==
    /\ pc \in {"split", "chunk", "key_phrases", "entities", "append", "upload"}
          => Strip(markdown_content) # <<>>
    /\ (log # <<>> /\ Last(log).ev = "no_text") =>
          /\ pc \in {"loop", "summary", "done"}
          /\ pos = Last(log).at + 1
          /\ lang_calls = <<>>
    /\ \A k \in EventsAt("no_text") :
          \A n \in EventsAt("success") \cup EventsAt("error") : log[n].at # log[k].at
    /\ Cardinality(DOMAIN store) <= Cardinality(EventsAt("success"))
    /\ pc = "done" =>
          document_count - processed_successfully_count
              = Cardinality(EventsAt("error")) + Cardinality(EventsAt("no_text"))

\* A run that passed over a blank document and then published another one.
C3_Witness ==
    /\ pc = "done"
    /\ \E k \in EventsAt("no_text") : \E n \in EventsAt("success") : n > k
    /\ document_count = 2
    /\ processed_successfully_count = 1

\* The artifact is no JSON, is no object, or has no non-empty chunks list.
Malformed(content) ==
    \/ content.ty = "garbage"
    \/ content.ty # "dict"
    \/ "chunks" \notin DOMAIN content.v
    \/ content.v["chunks"].ty # "list"
    \/ content.v["chunks"].v = <<>>

HasJsonExtension(name) ==
    LET n == Len(name)
    IN n >= 5 /\ SubSeq(name, n - 4, n) = <<".", "j", "s", "o", "n">>

RECURSIVE Flatten(_)
Flatten(seqs) == IF seqs = <<>> THEN <<>> ELSE Head(seqs) \o Flatten(Tail(seqs))

\* The indexer has listed the container and is past its for loop.
PastIngestLoop == ipc \in {"upload", "done"} /\ blob_list # <<>>

\* C4: an artifact that is no JSON, is no object or lacks a non-empty chunks
\* list contributes no index entry and nothing is raised out of the function;
\* every blob of the listing is passed, each artifact contributes the entries
\* it has by itself whatever the other artifacts are, and the entries of all
\* of them are what is submitted.
C4_MalformedArtifactIsSkipped ==
    /\ ipc # "raised"
    /\ Len(prepared) = bpos - 1
    /\ PastIngestLoop => Len(prepared) = Len(blob_list)
    /\ \A k \in 1..Len(prepared) :
          LET content == store[blob_list[k]]
          IN /\ Malformed(content) => prepared[k] = <<>>
             /\ ~HasJsonExtension(blob_list[k]) => prepared[k] = <<>>
             /\ prepared[k] \in {<<>>, PrepareBlob(content).docs}
             /\ (faults = 0 /\ HasJsonExtension(blob_list[k]))
                   => prepared[k] = PrepareBlob(content).docs
    /\ documents_to_upload = Flatten(prepared)
    /\ (ipc = "done" /\ blob_list # <<>> /\ Flatten(prepared) # <<>>)
          => uploads = <<Flatten(prepared)>>

\* A pass in which an artifact that is no object came before an artifact
\* whose entries were submitted.
C4_Witness ==
    /\ ipc = "done"
    /\ Len(uploads) = 1
    /\ \E k \in 1..Len(prepared) : \E m \in 1..Len(prepared) :
        /\ k < m
        /\ HasJsonExtension(blob_list[k])
        /\ store[blob_list[k]].ty = "list"
        /\ prepared[m] # <<>>
        /\ uploads[1] = prepared[m]

\* The reply of upload_documents, once it has been called.
UploadReply == Last(tape)

\* The number of positions of seq at which test holds.
CountOf(seq, test(_)) == Cardinality({k \in 1..Len(seq) : test(seq[k])})

\* C5: upload_documents is called at most once, after the loop, with the
\* entries prepared from all artifacts in listing order, and not at all when
\* there is none; when some entries are reported as failed nothing is
\* submitted again, the entries that succeeded are in the index, and the key
\* of each failed entry is logged once.
C5_SingleUploadAfterAllArtifacts ==
    /\ Len(uploads) <= 1
    /\ uploads # <<>> =>
          /\ ipc = "done"
          /\ bpos > Len(blob_list)
          /\ uploads[1] = Flatten(prepared)
          /\ uploads[1] # <<>>
    /\ (ipc = "done" /\ Flatten(prepared) = <<>>) =>
          uploads = <<>> /\ search_index = <<>>
    /\ (uploads # <<>> /\ UploadReply.ok) =>
          LET docs == uploads[1]
              results == UploadReply.val
          IN /\ \A k \in 1..Len(docs) :
                  /\ results[k] => docs[k].id \in DOMAIN search_index
                  /\ ~results[k] =>
                        CountOf(ilog, LAMBDA e : e.ev = "upload_failed"
                                                  /\ e.what = docs[k].id)
                          = Cardinality({n \in 1..Len(docs) :
                                            ~results[n] /\ docs[n].id = docs[k].id})
             /\ CountOf(ilog, LAMBDA e : e.ev = "upload_failed")
                  = Cardinality({n \in 1..Len(docs) : ~results[n]})
             /\ \A id \in DOMAIN search_index :
                  \E k \in 1..Len(docs) : results[k] /\ search_index[id] = docs[k]
    /\ (uploads # <<>> /\ ~UploadReply.ok) => search_index = <<>>

\* A pass over two artifacts with entries, of which the index took some and
\* reported another as failed.
C5_Witness ==
    /\ ipc = "done"
    /\ uploads # <<>>
    /\ UploadReply.ok
    /\ \E k \in 1..Len(prepared) : \E m \in 1..Len(prepared) :
          k < m /\ prepared[k] # <<>> /\ prepared[m] # <<>>
    /\ \E k \in 1..Len(uploads[1]) : ~UploadReply.val[k]
    /\ search_index # <<>>

\* C6: when the script is run again over the same container with the same
\* replies of the services, the processed container holds, after the second
\* run, the names it held after the first with the same contents.
C6_RerunLeavesStoreAsItWas ==
    (run = "second" /\ pc \in {"done", "fatal"}) => store = first_store

\* A second run that published two artifacts again.
C6_Witness ==
    /\ run = "second"
    /\ pc = "done"
    /\ processed_successfully_count = 2
    /\ Cardinality(DOMAIN store) = 2

\* C7: over a container whose blob names are pairwise distinct, no two
\* published documents have the artifact name or a chunk_id in common.
C7_ChunkIdsAndArtifactNamesUnique ==
    /\ Cardinality(DOMAIN store) = Cardinality(EventsAt("success"))
    /\ \A m \in EventsAt("success") : \A n \in EventsAt("success") :
          m # n =>
              /\ OutputFilename(container[log[m].at]) # OutputFilename(container[log[n].at])
              /\ ChunkId(container[log[m].at], 0) # ChunkId(container[log[n].at], 0)

\* C9: the chunk is redacted before the language service is called, every
\* call gets the redacted text of its chunk, and a chunk whose stripped
\* redacted text has 10 characters or less gets no call and is appended and
\* published with key_phrases [] and entities [].
C9_LanguageServiceGetsRedactedText ==
    /\ pc \in {"key_phrases", "entities"} =>
          redacted_chunk_content = redactions[i + 1]
    /\ \A n \in DOMAIN lang_calls :
          /\ lang_calls[n].i < Len(chunks)
          /\ lang_calls[n].text = redactions[lang_calls[n].i + 1]
          /\ ~ShortChunk(lang_calls[n].i)
    /\ \A k \in 0..(Len(processed_chunks_data) - 1) :
          /\ processed_chunks_data[k + 1].redacted_chunk_content = redactions[k + 1]
          /\ ShortChunk(k) =>
                /\ processed_chunks_data[k + 1].key_phrases = <<>>
                /\ processed_chunks_data[k + 1].entities = <<>>
    /\ JustPublished =>
          \A k \in 0..(Len(chunks) - 1) :
              ShortChunk(k) =>
                  /\ PublishedChunks[k + 1].v.key_phrases = JList(<<>>)
                  /\ PublishedChunks[k + 1].v.entities = JList(<<>>)
                  /\ \A n \in DOMAIN lang_calls : lang_calls[n].i # k

\* A document is published whose first chunk went to the language service
\* in another text than it was split, and whose second chunk is short only
\* once it is redacted.
C9_Witness ==
    /\ JustPublished
    /\ Len(chunks) = 2
    /\ \E n \in DOMAIN lang_calls :
          /\ lang_calls[n].i = 0
          /\ lang_calls[n].text # chunks[1].page_content
    /\ Len(Strip(chunks[2].page_content)) > 10
    /\ ShortChunk(1)
    /\ PublishedChunks[2].v.key_phrases = JList(<<>>)

\* C10: the attempted count is the number of listed names that end in .pdf
\* in any case, no other blob is downloaded, the succeeded count is the
\* number of completed uploads and never above the attempted count, and a
\* run without any PDF is reported otherwise than a run whose PDFs all failed.
C10_CountsAndReport ==
    /\ processed_successfully_count <= document_count
    /\ processed_successfully_count = Cardinality(EventsAt("success"))
    /\ document_count = Cardinality(EventsAt("attempt"))
    /\ \A k \in EventsAt("attempt") \cup EventsAt("downloaded") :
          HasPdfExtension(container[log[k].at])
    /\ \A k \in EventsAt("skip_non_pdf") : ~HasPdfExtension(container[log[k].at])
    /\ pc = "done" =>
          /\ document_count = Cardinality(PdfPositions)
          /\ IF PdfPositions = {}
             THEN report.kind = "no_pdf_found"
             ELSE report = [kind |-> "finished", ok |-> processed_successfully_count,
                            total |-> document_count]

\* A run over a PDF whose extension is in capitals and a blob that is no
\* PDF, in which the PDF failed.
C10_Witness ==
    /\ pc = "done"
    /\ Len(container) = 2
    /\ \E p \in PdfPositions : ~EndsWith(container[p], <<".", "p", "d", "f">>)
    /\ document_count = 1
    /\ processed_successfully_count = 0
    /\ report.kind = "finished"

\* The processor published a document under this name in this run.
WrittenByProcessor(name) ==
    \E n \in EventsAt("success") : OutputFilename(container[log[n].at]) = name

\* The indexer has just downloaded the blob before bpos and is through with it.
JustIngested ==
    /\ ipc = "loop"
    /\ bpos > 1
    /\ HasJsonExtension(blob_list[bpos - 1])
    /\ Last(tape).ok

\* C11 as stated: an artifact written by the processor is, when the indexer
\* reads it, passed over with the warning for a missing or empty chunks
\* list, contributes no index entry and does not stop the indexer.
C11_ProcessorArtifactSkippedAsNoChunks ==
    /\ ipc # "raised"
    /\ PastIngestLoop => Len(prepared) = Len(blob_list)
    /\ (JustIngested /\ WrittenByProcessor(blob_list[bpos - 1])) =>
          /\ prepared[bpos - 1] = <<>>
          /\ Last(ilog) = [ev |-> "no_chunks", what |-> blob_list[bpos - 1]]

\* C11 amended: an artifact written by the processor is a list, on which
\* .get raises; the indexer logs it as an error in the handler of lines
\* 116-118, never with the warning of lines 91-94; it contributes no index
\* entry, nothing is raised out of the function, every blob of the listing
\* is passed and a blob that was not written by the processor contributes
\* the entries it has by itself.
C11_ProcessorArtifactSkippedAsError ==
    /\ ipc # "raised"
    /\ PastIngestLoop => Len(prepared) = Len(blob_list)
    /\ \A k \in 1..Len(prepared) :
          WrittenByProcessor(blob_list[k]) =>
              /\ store[blob_list[k]].ty = "list"
              /\ prepared[k] = <<>>
              /\ \A n \in 1..Len(ilog) :
                    ilog[n].what = blob_list[k] => ilog[n].ev = "error"
    /\ (JustIngested /\ WrittenByProcessor(blob_list[bpos - 1])) =>
          Last(ilog) = [ev |-> "error", what |-> blob_list[bpos - 1]]
    /\ (JustIngested /\ ~WrittenByProcessor(blob_list[bpos - 1])) =>
          prepared[bpos - 1] = PrepareBlob(store[blob_list[bpos - 1]]).docs

\* The indexer read two artifacts of the processor without failure of the
\* download, then an artifact of another shape whose entries it submitted.
C11_Witness ==
    /\ ipc = "done"
    /\ Len(blob_list) = 3
    /\ WrittenByProcessor(blob_list[1])
    /\ WrittenByProcessor(blob_list[2])
    /\ Len(ilog) >= 3
    /\ faults = 0
    /\ prepared[3] # <<>>
    /\ uploads = <<prepared[3]>>

\* Every artifact of the processed container is an object with a non-empty
\* chunks list.
AllArtifactsWellFormed ==
    \A n \in DOMAIN store : HasJsonExtension(n) /\ ~Malformed(store[n])

\* C12: in a pass over artifacts that are objects with a non-empty chunks
\* list, the ids of the prepared entries are pairwise distinct, and once the
\* index has taken all of them it holds one record per prepared entry.
C12_SearchIdsPairwiseDistinct ==
    AllArtifactsWellFormed =>
        /\ \A k \in 1..Len(documents_to_upload) :
              \A m \in 1..Len(documents_to_upload) :
                  k # m => documents_to_upload[k].id # documents_to_upload[m].id
        /\ (ipc = "done" /\ uploads # <<>> /\ UploadReply.ok
              /\ \A k \in 1..Len(uploads[1]) : UploadReply.val[k])
              => Cardinality(DOMAIN search_index) = Len(uploads[1])
====
